---- MODULE Spec2Model ----
(***************************************************************************)
(* A model of COVID19analysis.py: the two report generators daily_report   *)
(* and trends as step-by-step pipelines, and the client-side selector      *)
(* state machine (the three CustomJS handlers) of the daily report page.   *)
(***************************************************************************)
EXTENDS Integers, Sequences, FiniteSets, TLC

(***************************************************************************)
(* Bounds of the model.                                                    *)
(***************************************************************************)
\* the largest number of rows of a snapshot table
MaxRows == 5
\* the largest number of columns a snapshot table may lack
MaxMissing == 1

(***************************************************************************)
(* Values.                                                                 *)
(***************************************************************************)
\* pandas' missing value as str() writes it into an entity key
NaN == "nan"
\* the same missing value as bokeh serialises it for the browser
JsNaN == "NaN"
\* JavaScript's undefined, in the place of a six-metric tuple
undefined == << >>
\* JavaScript's null, in the place of a selector value
null == "<null>"
\* an exception: its type, the column names and the path its arguments carry
Error(type, msg, names, path) == [type |-> type, msg |-> msg, names |-> names, path |-> path]
\* no exception raised
NoError == Error("none", "", {}, << >>)

\* RequiredColumns with Active left out of the check
RequiredColumns_short ==
    {"Admin2", "Province_State", "Country_Region", "Confirmed", "Deaths",
     "Recovered", "Incident_Rate", "Case_Fatality_Ratio"}

RequiredColumns ==
    {"Admin2", "Province_State", "Country_Region", "Confirmed", "Deaths",
     "Recovered", "Active", "Incident_Rate", "Case_Fatality_Ratio"}

\* the columns of a well-formed csse_covid_19_daily_reports file that the code uses
AllColumns == RequiredColumns \cup {"Last_Update"}

DefaultKey == "India_Karnataka_nan"

(***************************************************************************)
(* Snapshot tables.  A row carries Incident_Rate in tenths and             *)
(* Case_Fatality_Ratio in thousandths, so that rounding has work to do.    *)
(***************************************************************************)
Row(c, p, a, cf, rc, dt, ac, ir, cfr) ==
    [Country_Region |-> c, Province_State |-> p, Admin2 |-> a,
     Confirmed |-> cf, Recovered |-> rc, Deaths |-> dt, Active |-> ac,
     Incident_Rate |-> ir, Case_Fatality_Ratio |-> cfr]

MasterRows ==
    << Row("India", "Karnataka", NaN,   900, 500, 20, 380, 125, 2225),
       Row("India", "Kerala",    NaN,   700, 600, 10,  90, 234, 1428),
       Row("Foo",   "Bar",       "Qux", 300, 100,  5, 195, 315, 1666),
       Row("Foo",   "Bar",       "Quy", 200,  50,  4, 146, 135, 2000),
       Row("Foo",   "Baz",       NaN,   150,  40,  3, 107, 226, 2005),
       Row("Zed",   NaN,         NaN,   800, 300, 30, 470, 995, 3750),
       Row("Zed",   "Bar",       NaN,   100,  20,  2,  78, 104, 2015),
       Row("Yam",   NaN,         NaN,    50,  10,  1,  39,  45, 2995) >>

RECURSIVE Pick(_, _, _)
\* the rows of MasterRows whose index is in S, in ascending order from n on
Pick(S, n, acc) ==
    IF n > Len(MasterRows) THEN acc
    ELSE Pick(S, n + 1, IF n \in S THEN Append(acc, MasterRows[n]) ELSE acc)

Reverse(s) == [i \in 1..Len(s) |-> s[Len(s) + 1 - i]]

\* two rows whose names hold the separator of the entity keys
UnderscoreRows ==
    << Row("Foo",     "Bar_Baz", "Qux", 60, 20, 2, 38, 117, 3333),
       Row("Foo_Bar", "Baz",     "Qux", 40, 10, 1, 29, 262, 2500) >>

Datasets ==
    LET subs == {S \in SUBSET (1..Len(MasterRows)) : Cardinality(S) <= MaxRows}
    IN  {Pick(S, 1, << >>) : S \in subs} \cup {Reverse(Pick(S, 1, << >>)) : S \in subs}
           \cup {UnderscoreRows, Reverse(UnderscoreRows),
                 <<MasterRows[1]>> \o UnderscoreRows}

\* a dataset on which the whole of daily_report runs
SampleRows == Pick({1, 3, 5, 6}, 1, << >>)

ColumnSets ==
    {AllColumns \ M : M \in {X \in SUBSET AllColumns : Cardinality(X) <= MaxMissing}}

\* what pd.read_csv may return
Tables ==
    {[cols |-> AllColumns, rows |-> d] : d \in Datasets}
        \cup {[cols |-> c, rows |-> SampleRows] : c \in ColumnSets}

\* pd.DataFrame()
EmptyFrame == [cols |-> {}, rows |-> << >>]

(***************************************************************************)
(* File names, as sequences of characters.                                 *)
(***************************************************************************)
FileNames ==
    { << >>,
      <<"a", ".", "c", "s", "v">>,
      <<"a", ".", "t", "x", "t">>,
      <<"a">>,
      <<"a", ".", "c", "s", "v", ".", "t", "x", "t">>,
      <<"a", ".", "b", ".", "c", "s", "v">>,
      <<".", "/", "a", ".", "c", "s", "v">>,
      <<"a", "c", "s", "v">>,
      <<"a", ".", "c", "s", "v", "x">> }

DotCsv == <<".", "c", "s", "v">>

\* Contains as a test of the end of the name only
Contains_suffix(sub, s) ==
    Len(s) >= Len(sub) /\ SubSeq(s, Len(s) - Len(sub) + 1, Len(s)) = sub

\* sub in s
Contains(sub, s) ==
    \E i \in 1..(Len(s) - Len(sub) + 1) : SubSeq(s, i, i + Len(sub) - 1) = sub

\* s.split('.')[0]
SplitDotFirst(s) ==
    IF \E i \in 1..Len(s) : s[i] = "."
    THEN LET i == CHOOSE i \in 1..Len(s) : s[i] = "." /\ \A j \in 1..(i - 1) : s[j] # "."
         IN  SubSeq(s, 1, i - 1)
    ELSE s

(***************************************************************************)
(* The selection index (ddict).                                            *)
(***************************************************************************)
\* DataFrame.round: n counts parts of 1/unit; the result counts whole units,
\* a tie going to the even neighbour
Round(n, unit) ==
    LET q == n \div unit
        r == n % unit
    IN  IF 2 * r < unit THEN q
        ELSE IF 2 * r > unit THEN q + 1
        ELSE IF q % 2 = 0 THEN q ELSE q + 1

\* str(i) + '_' + str(j) + '_' + str(k)
EntityKey(i, j, k) == i \o "_" \o j \o "_" \o k

RowKey(r) == EntityKey(r.Country_Region, r.Province_State, r.Admin2)

RowTuple_swapped(r) ==
    << r.Confirmed, r.Deaths, r.Recovered, r.Active,
       Round(r.Incident_Rate, 10), Round(r.Case_Fatality_Ratio, 10) >>

\* [l, m, n, o, p, q]: Incident_Rate in whole units, Case_Fatality_Ratio in hundredths
RowTuple(r) ==
    << r.Confirmed, r.Recovered, r.Deaths, r.Active,
       Round(r.Incident_Rate, 10), Round(r.Case_Fatality_Ratio, 10) >>

Update_keep(d, k, v) == [x \in DOMAIN d \cup {k} |-> IF x \in DOMAIN d THEN d[x] ELSE v]

\* dict.update({k: v})
Update(d, k, v) == [x \in DOMAIN d \cup {k} |-> IF x = k THEN v ELSE d[x]]

RECURSIVE ddictLoop(_, _, _)
ddictLoop(d, rows, n) ==
    IF n > Len(rows) THEN d
    ELSE LET d1 == Update(d, RowKey(rows[n]), RowTuple(rows[n]))
             d2 == IF RowKey(rows[n]) = DefaultKey
                   THEN Update(d1, "default", RowTuple(rows[n]))
                   ELSE d1
         IN  ddictLoop(d2, rows, n + 1)

ddict(rows) ==
    LET d0 == [x \in {"categories"} |->
                 <<"Confirmed", "Recovered", "Deaths", "Active", "Incident_Rate",
                   "Case_Fatality_Ratio">>]
    IN  Update(ddictLoop(d0, rows, 1), "color",
               <<"royalblue", "lawngreen", "red", "orange", "skyblue", "blue">>)

\* source.data[k] in the browser
Lookup(d, k) == IF k \in DOMAIN d THEN d[k] ELSE undefined

(***************************************************************************)
(* The option tables (provinces_df, admin2_df) as the browser receives     *)
(* them: one column per parent, one cell per snapshot row.                 *)
(***************************************************************************)
ToJs(v) == IF v = NaN THEN JsNaN ELSE v

\* states.data[c]: provinces_df[c]
StatesData(rows, c) ==
    [n \in 1..Len(rows) |->
        IF rows[n].Country_Region = c THEN ToJs(rows[n].Province_State) ELSE JsNaN]

\* counties.data[p]: admin2_df[p]
CountiesData(rows, p) ==
    [n \in 1..Len(rows) |->
        IF rows[n].Province_State = p THEN ToJs(rows[n].Admin2) ELSE JsNaN]

\* FilterNaN with the filter forgotten
FilterNaN_kept(s) == s

\* array.filter(function(value){return value != 'NaN'})
FilterNaN(s) == SelectSeq(s, LAMBDA v : v # JsNaN)

\* self.indexOf(value), counted from 1
IndexOf(s, v) == CHOOSE i \in 1..Len(s) : s[i] = v /\ \A j \in 1..(i - 1) : s[j] # v

\* Unique with the de-duplication forgotten
Unique_all(s) == s

RECURSIVE UniqueFrom(_, _, _)
UniqueFrom(s, n, acc) ==
    IF n > Len(s) THEN acc
    ELSE UniqueFrom(s, n + 1, IF IndexOf(s, s[n]) = n THEN Append(acc, s[n]) ELSE acc)

\* array.filter(function(value, index, self){return self.indexOf(value) == index})
Unique(s) == UniqueFrom(s, 1, << >>)

\* provinces_df['India'].dropna().tolist()
DropNa(s) == SelectSeq(s, LAMBDA v : v # JsNaN)

\* df_daily_report['Country_Region'].unique().tolist()
countries_region_list(rows) == Unique([n \in 1..Len(rows) |-> rows[n].Country_Region])

(***************************************************************************)
(* The browser side of the daily report: the bokeh models the three        *)
(* CustomJS callbacks read and write, as one record.                       *)
(*   source      dsource.data                                              *)
(*   field       datatable.columns[1].field                                *)
(*   title       tp.title.text: the entity label, the incident rate and    *)
(*               the case fatality ratio (in hundredths) it shows          *)
(*   thrown      the last callback ended in a TypeError                    *)
(***************************************************************************)
Select(options, value) == [options |-> options, value |-> value]

TitleText(label, tuple) == [label |-> label, ir |-> tuple[5], cfr |-> tuple[6]]

NoPage ==
    [source |-> << >>, field |-> "", title |-> TitleText("", <<0, 0, 0, 0, 0, 0>>),
     axis_label |-> "", visible |-> TRUE, thrown |-> FALSE,
     s_countries |-> Select(<< >>, ""), s_provinces |-> Select(<< >>, ""),
     s_admin2 |-> Select(<< >>, "")]

\* source.data['default'] = source.data[category]; dtable.columns[1].field = category
Swap(pg, category) ==
    [pg EXCEPT !.source = Update(@, "default", Lookup(@, category)), !.field = category]

\* pt.title.text = ... Math.round(source.data[category][4]) ...: a TypeError when
\* source.data[category] is undefined, and then the callback ends there
Retitle(pg, label, category) ==
    IF Lookup(pg.source, category) = undefined
    THEN [pg EXCEPT !.thrown = TRUE]
    ELSE [pg EXCEPT !.title = TitleText(label, Lookup(pg.source, category))]

call_admin2(pg) ==
    IF pg.s_admin2.value # null
    THEN LET admin == pg.s_admin2.value
             province == pg.s_provinces.value
             tcategory == pg.s_countries.value
             category == tcategory \o "_" \o province \o "_" \o admin
             p1 == Retitle(Swap(pg, category), category, category)
         IN  IF p1.thrown THEN p1
             ELSE [p1 EXCEPT !.axis_label = "category", !.visible = TRUE]
    ELSE pg

\* s_counties.value = v: the callback of s_admin2 runs when the value changes
SetAdmin2Value(pg, v) ==
    IF pg.s_admin2.value = v THEN pg
    ELSE call_admin2([pg EXCEPT !.s_admin2.value = v])

call_provinces(rows, pg) ==
    IF pg.s_provinces.value # null
    THEN LET province == pg.s_provinces.value
             tcategory == pg.s_countries.value
             coptions == FilterNaN(CountiesData(rows, pg.s_provinces.value))
             ucoptions == Unique(coptions)
             p1 == [pg EXCEPT !.s_admin2.options = ucoptions]
             p2 == IF Len(p1.s_admin2.options) = 0
                   THEN SetAdmin2Value(p1, null)
                   ELSE SetAdmin2Value(p1, p1.s_admin2.options[1])
             admin == IF Len(p1.s_admin2.options) = 0 THEN "nan"
                      ELSE p1.s_admin2.options[1]
             category == tcategory \o "_" \o province \o "_" \o admin
             p3 == Retitle(Swap(p2, category),
                           IF admin = "nan" THEN tcategory \o "_" \o province
                           ELSE category,
                           category)
         IN  IF p2.thrown THEN p2
             ELSE IF p3.thrown THEN p3
             ELSE [p3 EXCEPT !.visible = TRUE]
    ELSE pg

\* s_states.value = v: the callback of s_provinces runs when the value changes
SetProvincesValue(rows, pg, v) ==
    IF pg.s_provinces.value = v THEN pg
    ELSE call_provinces(rows, [pg EXCEPT !.s_provinces.value = v])

call_country(rows, pg) ==
    LET tcategory == pg.s_countries.value
        foptions1 == FilterNaN(StatesData(rows, pg.s_countries.value))
        poptions == Unique(foptions1)
        p1 == [pg EXCEPT !.s_provinces.options = poptions]
        none == Len(p1.s_provinces.options) = 0
        p2 == IF none THEN [p1 EXCEPT !.s_admin2.options = poptions]
              ELSE SetProvincesValue(rows, p1, p1.s_provinces.options[1])
        province == IF none THEN "nan" ELSE p1.s_provinces.options[1]
        coptions == IF none THEN << >>
                    ELSE Unique(FilterNaN(CountiesData(rows, p1.s_provinces.options[1])))
        p3 == IF none THEN p2 ELSE [p2 EXCEPT !.s_admin2.options = coptions]
        admin == IF none \/ Len(coptions) = 0 THEN "nan" ELSE coptions[1]
        category == tcategory \o "_" \o province \o "_" \o admin
        p4 == Swap(p3, category)
        p5 == IF province # "nan" /\ admin # "nan" THEN Retitle(p4, category, category)
              ELSE IF province = "nan" /\ admin = "nan" THEN Retitle(p4, tcategory, category)
              ELSE IF province # "nan"
                   THEN Retitle(p4, tcategory \o " _ " \o province, category)
              ELSE p4
    IN  IF p2.thrown THEN p2
        ELSE IF p5.thrown THEN p5
        ELSE [p5 EXCEPT !.visible = TRUE]

(***************************************************************************)
(* State.                                                                  *)
(*   call               the function invoked: "daily_report" or "trends"   *)
(*   filename           the keyword argument of daily_report               *)
(*   fileExists         os.path.isfile(filename)                           *)
(*   pc                 the position reached in the invoked function       *)
(*   err                the exception that ended the call, if any          *)
(*   df                 df_daily_report                                    *)
(*   date_on_save_html  the stem of the output file name                   *)
(*   attempts           the remote retrievals made so far, in order        *)
(*   fileReads          the number of times the local file was read        *)
(*   page               the bokeh models of the daily report               *)
(*   ev                 the last selector change the user made             *)
(*   tr                 the tables of trends                               *)
(*   saved              the HTML files written so far                      *)
(***************************************************************************)
VARIABLES call, filename, fileExists, pc, err, df, date_on_save_html, attempts,
          fileReads, page, ev, tr, saved

vars == <<call, filename, fileExists, pc, err, df, date_on_save_html, attempts,
          fileReads, page, ev, tr, saved>>

input == <<call, filename, fileExists>>

date_on_file_today == <<"today">>
date_on_file_yesterday == <<"yesterday">>
date_on_file_day_b4_yesterday == <<"day_b4_yesterday">>

NoTable == [cols |-> {}, rows |-> << >>]
NoEvent == [op |-> "none", arg |-> "", pre |-> NoPage]
\* a DataFrame of the time series: index, columns in order, column -> values
NoFrameData == [c \in {} |-> << >>]

Frame(index, columns, data) ==
    [index |-> index, columns |-> columns,
     data |-> [c \in DOMAIN data |-> SubSeq(data[c], 1, Len(index))] @@ << >>]

NoTop10 == [index |-> << >>, Confirmed |-> NoFrameData, Recovered |-> NoFrameData,
            Deaths |-> NoFrameData, Active |-> NoFrameData]

NoFrame == Frame(<< >>, << >>, NoFrameData)

NoSources == [c |-> NoFrame, daily |-> NoFrame, sda |-> NoFrame, rec |-> NoFrame,
              dth |-> NoFrame, act |-> NoFrame, incident_rate |-> NoFrame,
              case_fatality_ratio |-> NoFrame]

NoTrends == [df_confirmed |-> NoFrame, df_recovered |-> NoFrame, df_deaths |-> NoFrame,
             df_confirmed_ww |-> NoFrame, df_recovered_ww |-> NoFrame,
             df_deaths_ww |-> NoFrame, df_top10_crda |-> NoTop10,
             df_pop_inc_worldwide |-> << >>, df_incident_rate |-> NoFrame,
             countries_list |-> << >>, top10_countries |-> << >>,
             df_list |-> << >>, source |-> NoSources,
             s200 |-> Select(<< >>, null), t198 |-> "", pgrid |-> [visible |-> FALSE],
             csv |-> << >>]

Init ==
    /\ call \in {"daily_report", "trends"}
    /\ filename \in (IF call = "daily_report" THEN FileNames ELSE {<< >>})
    /\ fileExists \in (IF filename # << >> THEN BOOLEAN ELSE {FALSE})
    /\ pc = "start"
    /\ err = NoError
    /\ df = NoTable
    /\ date_on_save_html = <<" ">>
    /\ attempts = << >>
    /\ fileReads = 0
    /\ page = NoPage
    /\ ev = NoEvent
    /\ tr = NoTrends
    /\ saved = << >>

\* raise: the call ends with the exception e
Raise(e) == pc' = "failed" /\ err' = e

(***************************************************************************)
(* daily_report: the local file.                                           *)
(***************************************************************************)
ReadLocalFile ==
    /\ call = "daily_report" /\ pc = "start" /\ filename # << >>
    /\ UNCHANGED <<input, attempts, page, ev, tr, saved>>
    /\ IF Contains(DotCsv, filename)
       THEN IF fileExists
            THEN /\ fileReads' = fileReads + 1
                 /\ \/ \* pd.read_csv cannot parse the file
                       /\ Raise(Error("ParserError", "", {}, << >>))
                       /\ UNCHANGED <<df, date_on_save_html>>
                    \/ \E t \in Tables :
                          /\ df' = t
                          /\ date_on_save_html' = SplitDotFirst(filename)
                          /\ IF RequiredColumns \subseteq t.cols
                             THEN pc' = "fetched" /\ err' = err
                             ELSE Raise(Error("NameError",
                                     "one or any of these columns not found in the csv file",
                                     RequiredColumns, << >>))
            ELSE /\ Raise(Error("FileNotFoundError", "No such file or directory", {},
                                filename))
                 /\ UNCHANGED <<df, date_on_save_html, fileReads>>
       ELSE /\ Raise(Error("NameError",
                "Filename extension missing, takes name of valid csv file with extension",
                {}, << >>))
            /\ UNCHANGED <<df, date_on_save_html, fileReads>>

(***************************************************************************)
(* daily_report: the three remote attempts.                                *)
(***************************************************************************)
\* Attempt giving up after the first failure
Attempt_once(at, date, next) ==
    /\ call = "daily_report" /\ pc = at
    /\ UNCHANGED <<input, err, fileReads, page, ev, tr, saved>>
    /\ \/ \E t \in Tables :
             /\ attempts' = Append(attempts, [date |-> date, ok |-> TRUE])
             /\ df' = t
             /\ date_on_save_html' = date
             /\ pc' = "fetched"
       \/ /\ attempts' = Append(attempts, [date |-> date, ok |-> FALSE])
          /\ df' = EmptyFrame
          /\ date_on_save_html' = date_on_save_html
          /\ pc' = "fetched"

\* pd.read_csv(url_dr + date + '.csv') inside try: it returns a table, or raises
\* and control passes to the except clause at position next
Attempt(at, date, next) ==
    /\ call = "daily_report" /\ pc = at
    /\ UNCHANGED <<input, err, fileReads, page, ev, tr, saved>>
    /\ \/ \E t \in Tables :
             /\ attempts' = Append(attempts, [date |-> date, ok |-> TRUE])
             /\ df' = t
             /\ date_on_save_html' = date
             /\ pc' = "fetched"
       \/ /\ attempts' = Append(attempts, [date |-> date, ok |-> FALSE])
          /\ df' = (IF next = "fetched" THEN EmptyFrame ELSE df)
          /\ date_on_save_html' = date_on_save_html
          /\ pc' = next

TryToday ==
    /\ filename = << >>
    /\ Attempt("start", date_on_file_today, "yesterday")

TryYesterday ==
    /\ filename = << >>
    /\ Attempt("yesterday", date_on_file_yesterday, "day_b4_yesterday")

TryDayBeforeYesterday ==
    /\ filename = << >>
    /\ Attempt("day_b4_yesterday", date_on_file_day_b4_yesterday, "fetched")

(***************************************************************************)
(* daily_report: from the table to the saved page.                         *)
(***************************************************************************)
\* Empty looking at the columns only
Empty_columns(t) == t.cols = {}

\* df_daily_report.empty
Empty(t) == Len(t.rows) = 0 \/ t.cols = {}

CheckEmpty ==
    /\ call = "daily_report" /\ pc = "fetched"
    /\ UNCHANGED <<input, df, date_on_save_html, attempts, fileReads, page, ev, tr, saved>>
    /\ IF Empty(df)
       THEN Raise(Error("FileNotFoundError",
               "Input file not found on the server or internet connection unavailable",
               {}, << >>))
       ELSE pc' = "index" /\ err' = err

\* lines 144-162: df_drfc, ddict, dsource
BuildIndex ==
    /\ call = "daily_report" /\ pc = "index"
    /\ UNCHANGED <<input, df, date_on_save_html, attempts, fileReads, ev, tr, saved>>
    /\ IF RequiredColumns \subseteq df.cols
       THEN /\ page' = [page EXCEPT !.source = ddict(df.rows)]
            /\ pc' = "tables" /\ err' = err
       ELSE /\ Raise(Error("AttributeError", "", RequiredColumns \ df.cols, << >>))
            /\ page' = page

\* lines 165-177: provinces_df, admin2_df, countries_region_list, last_update
BuildOptionTables ==
    /\ call = "daily_report" /\ pc = "tables"
    /\ UNCHANGED <<input, df, date_on_save_html, attempts, fileReads, page, ev, tr, saved>>
    /\ IF \A n \in 1..Len(df.rows) : df.rows[n].Province_State # NaN
       THEN Raise(Error("KeyError", "[nan] not found in axis", {}, << >>))
       ELSE IF "Last_Update" \notin df.cols
       THEN Raise(Error("KeyError", "", {"Last_Update"}, << >>))
       ELSE pc' = "plot" /\ err' = err

\* lines 181-208: tp, its title, datatable
BuildPlot ==
    /\ call = "daily_report" /\ pc = "plot"
    /\ UNCHANGED <<input, df, date_on_save_html, attempts, fileReads, ev, tr, saved>>
    /\ IF "default" \in DOMAIN page.source
       THEN /\ page' = [page EXCEPT !.title = TitleText("India_Karnataka", page.source["default"]),
                                    !.field = "default"]
            /\ pc' = "selectors" /\ err' = err
       ELSE /\ Raise(Error("KeyError", "", {"default"}, << >>))
            /\ page' = page

\* lines 211-224: s_countries, s_provinces, s_admin2
BuildSelectors ==
    /\ call = "daily_report" /\ pc = "selectors"
    /\ UNCHANGED <<input, df, date_on_save_html, attempts, fileReads, ev, tr, saved>>
    /\ IF "India" \in {df.rows[n].Country_Region : n \in 1..Len(df.rows)}
       THEN /\ page' = [page EXCEPT
                          !.s_countries = Select(countries_region_list(df.rows), "India"),
                          !.s_provinces = Select(DropNa(StatesData(df.rows, "India")),
                                                 "Karnataka"),
                          !.s_admin2 = Select(<< >>, "")]
            /\ pc' = "save" /\ err' = err
       ELSE /\ Raise(Error("KeyError", "", {"India"}, << >>))
            /\ page' = page

\* Save reached also after an exception, as from a finally clause
Save_finally ==
    /\ call = "daily_report" /\ pc \in {"save", "failed"}
    /\ UNCHANGED <<input, err, df, date_on_save_html, attempts, fileReads, page, ev, tr>>
    /\ saved' = Append(saved, [name |-> "COVID-19_Daily_Report_JS_",
                               stem |-> date_on_save_html])
    /\ pc' = "done"

\* lines 427-431: pn_dashboard.save
Save ==
    /\ call = "daily_report" /\ pc = "save"
    /\ UNCHANGED <<input, err, df, date_on_save_html, attempts, fileReads, page, ev, tr>>
    /\ saved' = Append(saved, [name |-> "COVID-19_Daily_Report_JS_",
                               stem |-> date_on_save_html])
    /\ pc' = "done"

(***************************************************************************)
(* The saved page in the browser: the user changes one selector.           *)
(***************************************************************************)
Opened == call = "daily_report" /\ pc = "done"

UserChange(op, v, after) ==
    /\ ev' = [op |-> op, arg |-> v, pre |-> page]
    /\ page' = after
    /\ UNCHANGED <<input, pc, err, df, date_on_save_html, attempts, fileReads, tr, saved>>

ChangeCountry ==
    /\ Opened
    /\ \E n \in 1..Len(page.s_countries.options) :
          LET v == page.s_countries.options[n]
          IN  /\ v # page.s_countries.value
              /\ UserChange("country", v,
                    call_country(df.rows, [page EXCEPT !.s_countries.value = v,
                                                       !.thrown = FALSE]))

ChangeProvince ==
    /\ Opened
    /\ \E n \in 1..Len(page.s_provinces.options) :
          LET v == page.s_provinces.options[n]
          IN  /\ v # page.s_provinces.value
              /\ UserChange("province", v,
                    call_provinces(df.rows, [page EXCEPT !.s_provinces.value = v,
                                                         !.thrown = FALSE]))

ChangeAdmin2 ==
    /\ Opened
    /\ \E n \in 1..Len(page.s_admin2.options) :
          LET v == page.s_admin2.options[n]
          IN  /\ v # page.s_admin2.value
              /\ UserChange("admin2", v,
                    call_admin2([page EXCEPT !.s_admin2.value = v, !.thrown = FALSE]))

(***************************************************************************)
(* trends.  A time-series file is a sequence of rows, one per country or   *)
(* province, each with one value per date; dates are numbered from 1.  A   *)
(* DataFrame is a record of its index, its columns in order and its data,  *)
(* a function from column to the sequence of values along the index.       *)
(***************************************************************************)
\* the countries the dropdown lists first (lines 863-867), 'Worldwide' ahead of them
countries_list_head ==
    <<"Worldwide", "India", "US", "Germany", "France", "Italy", "Canada", "Japan",
      "Israel", "United Kingdom", "Russia", "Brazil", "Mexico", "Korea, South", "Iran",
      "Saudi Arabia", "United Arab Emirates", "Australia", "New Zealand", "Sweden",
      "Switzerland", "Belgium">>

\* the labels Index.drop is given (lines 870-879)
PreferredCountries == {countries_list_head[n] : n \in 2..Len(countries_list_head)}

\* the columns of a pivoted time-series table, in the order pivot_table leaves them
ColumnOrder ==
    <<"Australia", "Belgium", "Brazil", "Canada", "China", "Foo", "France", "Germany",
      "India", "Iran", "Israel", "Italy", "Japan", "Korea, South", "Mexico",
      "New Zealand", "Russia", "Saudi Arabia", "Sweden", "Switzerland", "US",
      "United Arab Emirates", "United Kingdom">>

TrendCountries == {ColumnOrder[n] : n \in 1..Len(ColumnOrder)}

Range(s) == {s[n] : n \in 1..Len(s)}

\* the rows the charts leave out, df[70:]
Offset == 70

\* rolling(7)
Window == 7

\* the incident rate is per 100000 inhabitants
PerPopulation == 100000

TopN == 10

\* numpy's nan in a numeric column
np_nan == -999999999

RECURSIVE Flatten(_)
Flatten(ss) == IF ss = << >> THEN << >> ELSE Head(ss) \o Flatten(Tail(ss))

\* the Province/State cells of a country's rows in the time-series files
ProvinceStates(c) ==
    IF c = "China" THEN <<"Beijing", "Hubei">>
    ELSE IF c = "Canada" THEN <<"Alberta", "Ontario">>
    ELSE IF c = "France" THEN <<"Martinique", NaN>>
    ELSE <<NaN>>

\* cumulative counts: they grow unevenly and now and then fall by a correction
Growth(i, t) == i * (t \div 3) + ((i * t) % 5)

\* a country's cumulative count at date t in a file of the given kind
Total(kind, c, t) ==
    LET at == IF kind = "tied" /\ c = "Sweden" THEN "Switzerland" ELSE c
    IN  IF at = "Foo" THEN (IF t <= 5 THEN 100 * t ELSE 500 + 2 * (t - 5))
        ELSE IF at = "Australia" THEN 2 * t
        ELSE IF kind = "peaked" /\ at = "US" /\ t >= Offset + 5
        THEN Growth(IndexOf(ColumnOrder, at), t) - 90
        ELSE Growth(IndexOf(ColumnOrder, at), t)

\* the rows of a time-series file: kind of counts, divisor (recovered and
\* deaths are fractions of confirmed), countries left out, number of dates
SeriesFile(kind, divisor, missing, n) ==
    Flatten([k \in 1..Len(ColumnOrder) |->
        LET c == ColumnOrder[k]
            ps == ProvinceStates(c)
        IN  IF c \in missing THEN << >>
            ELSE [j \in 1..Len(ps) |->
                    [Country |-> c, Province |-> ps[j],
                     vals |-> [t \in 1..n |->
                        LET v == Total(kind, c, t) \div divisor
                        IN  IF Len(ps) = 1 THEN v
                            ELSE IF j = 1 THEN v \div 3 ELSE v - (v \div 3)]]]])

\* how many dates beyond one full window after the offset a file may have
ExtraDates == 2

FileLengths == {Offset + Window + k : k \in 0..ExtraDates}

\* what pd.read_csv may return for the three time-series files
ConfirmedFiles ==
    {SeriesFile("plain", 1, {}, n) : n \in FileLengths}
       \cup {SeriesFile(k[1], 1, k[2], Offset + Window + ExtraDates) :
                k \in {<<"peaked", {}>>, <<"tied", {}>>,
                       <<"plain", {"China"}>>, <<"plain", {"Belgium"}>>}}

RecoveredFiles(n) ==
    {SeriesFile("plain", 2, M, n) : M \in {{}, {"China"}, {"Belgium"}, {"US"}}}

DeathsFiles(n) == {SeriesFile("plain", 10, M, n) : M \in {{}, {"US"}}}

\* the Population cell of a country's row in the look-up table
Population(c) ==
    IF c = "Foo" THEN 1000000
    ELSE IF c = "Australia" THEN 400000
    ELSE 300000 * IndexOf(ColumnOrder, c)

\* what pd.read_csv may return for the look-up table: a row per country and
\* rows for some provinces
PopulationFile(missing) ==
    Flatten([k \in 1..Len(ColumnOrder) |->
        LET c == ColumnOrder[k]
            whole == [Country_Region |-> c, Province_State |-> NaN,
                      Population |-> Population(c)]
        IN  IF c \in missing THEN << >>
            ELSE IF c \in {"China", "Canada"}
            THEN <<whole, [whole EXCEPT !.Province_State = ProvinceStates(c)[1],
                                         !.Population = Population(c) \div 3]>>
            ELSE <<whole>>])

PopulationFiles == {PopulationFile(M) : M \in {{}, {"Foo"}}}

\* lines 540-550: the non-date columns dropped, one column per country with
\* the sum of the country's rows, the dates as index
RECURSIVE SumOfCountry(_, _, _)
SumOfCountry(rows, c, t) ==
    IF rows = << >> THEN 0
    ELSE (IF Head(rows).Country = c THEN Head(rows).vals[t] ELSE 0)
            + SumOfCountry(Tail(rows), c, t)

create_df_last(rows) ==
    LET countries == {rows[k].Country : k \in 1..Len(rows)}
        n == IF rows = << >> THEN 0 ELSE Len(rows[1].vals)
        Last(c) == CHOOSE k \in 1..Len(rows) :
                      /\ rows[k].Country = c
                      /\ \A j \in (k + 1)..Len(rows) : rows[j].Country # c
    IN  Frame([t \in 1..n |-> t],
              SelectSeq(ColumnOrder, LAMBDA c : c \in countries),
              [c \in countries |-> [t \in 1..n |-> rows[Last(c)].vals[t]]])

create_df(rows) ==
    LET countries == {rows[k].Country : k \in 1..Len(rows)}
        n == IF rows = << >> THEN 0 ELSE Len(rows[1].vals)
    IN  Frame([t \in 1..n |-> t],
              SelectSeq(ColumnOrder, LAMBDA c : c \in countries),
              [c \in countries |-> [t \in 1..n |-> SumOfCountry(rows, c, t)]])

\* lines 585-590: df.copy() with df['Worldwide'] = df.sum(axis=1)
RECURSIVE SumRow(_, _, _)
SumRow(f, cols, t) ==
    IF cols = << >> THEN 0 ELSE f.data[Head(cols)][t] + SumRow(f, Tail(cols), t)

with_worldwide_partial(f) ==
    Frame(f.index, Append(f.columns, "Worldwide"),
          [c \in Range(f.columns) \cup {"Worldwide"} |->
              IF c = "Worldwide"
              THEN [t \in 1..Len(f.index) |-> SumRow(f, Tail(f.columns), t)]
              ELSE f.data[c]])

with_worldwide(f) ==
    Frame(f.index, Append(f.columns, "Worldwide"),
          [c \in Range(f.columns) \cup {"Worldwide"} |->
              IF c = "Worldwide"
              THEN [t \in 1..Len(f.index) |-> SumRow(f, f.columns, t)]
              ELSE f.data[c]])

\* df[k:]
Slice(f, k) ==
    Frame(SubSeq(f.index, k + 1, Len(f.index)), f.columns,
          [c \in DOMAIN f.data |-> SubSeq(f.data[c], k + 1, Len(f.index))])

\* df[labels]
Columns(f, labels) == Frame(f.index, labels, [c \in Range(labels) |-> f.data[c]])

\* arithmetic with a missing operand gives a missing result
Minus(a, b) == IF a = np_nan \/ b = np_nan THEN np_nan ELSE a - b

\* df.diff(1): the first row has no predecessor
diff(f) ==
    Frame(f.index, f.columns,
          [c \in DOMAIN f.data |->
              [n \in 1..Len(f.index) |->
                  IF n = 1 THEN np_nan ELSE Minus(f.data[c][n], f.data[c][n - 1])]])

\* df[df > 0]
Positive(f) ==
    Frame(f.index, f.columns,
          [c \in DOMAIN f.data |->
              [n \in 1..Len(f.index) |->
                  LET v == f.data[c][n]
                  IN  IF v # np_nan /\ v > 0 THEN v ELSE np_nan]])

RECURSIVE SumOver(_, _, _)
SumOver(v, from, to) == IF from > to THEN 0 ELSE v[from] + SumOver(v, from + 1, to)

\* df.rolling(7).agg('mean'): a window with fewer than 7 values has no mean;
\* the means are held in sevenths
rolling_mean(f) ==
    Frame(f.index, f.columns,
          [c \in DOMAIN f.data |->
              [n \in 1..Len(f.index) |->
                  IF n < Window \/ \E j \in (n - Window + 1)..n : f.data[c][j] = np_nan
                  THEN np_nan
                  ELSE SumOver(f.data[c], n - Window + 1, n)]])

dropna_none(f) == f

\* df.dropna(): the rows with a missing value in any column go
dropna(f) ==
    LET kept == SelectSeq([n \in 1..Len(f.index) |-> n],
                          LAMBDA n : \A c \in DOMAIN f.data : f.data[c][n] # np_nan)
    IN  Frame([k \in 1..Len(kept) |-> f.index[kept[k]]], f.columns,
              [c \in DOMAIN f.data |-> [k \in 1..Len(kept) |-> f.data[c][kept[k]]]])

\* float to int conversion drops the fraction
Trunc_floor(v, unit) == v \div unit

Trunc(v, unit) == IF v >= 0 THEN v \div unit ELSE -((-v) \div unit)

\* df.astype(int) of values held in fractions of unit
astype_int(f, unit) ==
    Frame(f.index, f.columns,
          [c \in DOMAIN f.data |->
              [n \in 1..Len(f.index) |-> Trunc(f.data[c][n], unit)]])

\* df.diff(1).rolling(7).agg('mean').dropna().astype(int)
seven_day_average(f) == astype_int(dropna(rolling_mean(diff(f))), Window)

Sub_left(f, g) == f

\* f - g of frames over the same dates: a column one of them lacks is missing
Sub(f, g) ==
    LET both == DOMAIN f.data \cap DOMAIN g.data
        any == DOMAIN f.data \cup DOMAIN g.data
    IN  Frame(f.index,
              IF f.columns = g.columns THEN f.columns
              ELSE SelectSeq(Append(ColumnOrder, "Worldwide"), LAMBDA c : c \in any),
              [c \in any |->
                  [n \in 1..Len(f.index) |->
                      IF c \in both THEN Minus(f.data[c][n], g.data[c][n])
                      ELSE np_nan]])

\* a float quotient, held as numerator and denominator
Ratio(a, b) ==
    IF a = np_nan \/ b = np_nan THEN [num |-> np_nan, den |-> 1]
    ELSE [num |-> a, den |-> b]

\* f * 100 / g of frames over the same dates
Percent(f, g) ==
    LET both == DOMAIN f.data \cap DOMAIN g.data
        any == DOMAIN f.data \cup DOMAIN g.data
    IN  Frame(f.index,
              IF f.columns = g.columns THEN f.columns
              ELSE SelectSeq(Append(ColumnOrder, "Worldwide"), LAMBDA c : c \in any),
              [c \in any |->
                  [n \in 1..Len(f.index) |->
                      IF c \in both THEN Ratio(f.data[c][n] * 100, g.data[c][n])
                      ELSE Ratio(np_nan, np_nan)]])

\* ColumnDataSource(df) with data['Default'] = data['Worldwide']
Source(f) ==
    Frame(f.index, Append(f.columns, "Default"),
          [c \in DOMAIN f.data \cup {"Default"} |->
              IF c = "Default" THEN f.data["Worldwide"] ELSE f.data[c]])

\* df.max() of one column
SeriesMax(v) ==
    LET values == Range(v)
    IN  CHOOSE m \in values : \A x \in values : x <= m

\* the columns by descending key; equal keys in the order tie gives them
Descending(columns, key, tie) ==
    LET Before(a, b) ==
            \/ key[a] > key[b]
            \/ /\ key[a] = key[b]
               /\ IF tie = "kept"
                  THEN IndexOf(columns, a) < IndexOf(columns, b)
                  ELSE IndexOf(columns, a) > IndexOf(columns, b)
        rank == [c \in Range(columns) |->
                    Cardinality({d \in Range(columns) : Before(d, c)})] @@ << >>
    IN  [r \in 1..Len(columns) |-> CHOOSE c \in Range(columns) : rank[c] = r - 1]

\* Series.sort_values(ascending=False) of the column maxima: the default
\* quicksort leaves the order of equal maxima open, as the columns have them
\* ("kept") or the other way round
sort_values_latest(f, tie) ==
    Descending(f.columns,
               [c \in Range(f.columns) |-> f.data[c][Len(f.index)]] @@ << >>, tie)

sort_values(f, tie) ==
    Descending(f.columns,
               [c \in Range(f.columns) |-> SeriesMax(f.data[c])] @@ << >>, tie)

TieOrders == {"kept", "reversed"}

\* df.max().sort_values(ascending=False)[0:10].index
Top10(f, tie) ==
    LET ranked == sort_values(f, tie)
    IN  SubSeq(ranked, 1, IF Len(ranked) < TopN THEN Len(ranked) ELSE TopN)

top10_crda_reranked(top, fc, fr, fd) ==
    LET Confirmed == [c \in Range(top) |-> SeriesMax(fc.data[c])]
        Recovered == [c \in Range(top) |->
                        SeriesMax(fr.data[sort_values(fr, "kept")[IndexOf(top, c)]])]
        Deaths == [c \in Range(top) |->
                     SeriesMax(fd.data[sort_values(fd, "kept")[IndexOf(top, c)]])]
    IN  [index |-> top, Confirmed |-> Confirmed, Recovered |-> Recovered,
         Deaths |-> Deaths,
         Active |-> [c \in Range(top) |-> Confirmed[c] - Recovered[c] - Deaths[c]]]

\* lines 595-600: the maxima of the three tables for the top 10 of confirmed
top10_crda(top, fc, fr, fd) ==
    LET Confirmed == [c \in Range(top) |-> SeriesMax(fc.data[c])]
        Recovered == [c \in Range(top) |-> SeriesMax(fr.data[c])]
        Deaths == [c \in Range(top) |-> SeriesMax(fd.data[c])]
    IN  [index |-> top, Confirmed |-> Confirmed, Recovered |-> Recovered,
         Deaths |-> Deaths,
         Active |-> [c \in Range(top) |-> Confirmed[c] - Recovered[c] - Deaths[c]]]

\* lines 620-628: the country rows of the look-up table under a 'Worldwide'
\* row with the sum of their populations
RECURSIVE SumPopulation(_)
SumPopulation(rows) ==
    IF rows = << >> THEN 0 ELSE Head(rows).Population + SumPopulation(Tail(rows))

pop_inc_worldwide(file) ==
    LET df_pop == SelectSeq(file, LAMBDA r : r.Province_State = NaN)
        rows == [k \in 1..Len(df_pop) |->
                    [Country_Region |-> df_pop[k].Country_Region,
                     Population |-> df_pop[k].Population]]
    IN  <<[Country_Region |-> "Worldwide", Population |-> SumPopulation(rows)]>> \o rows

\* df_pop_inc_worldwide[...isin([i])]['Population'].values
PopulationValues(pop, c) ==
    LET rows == SelectSeq(pop, LAMBDA r : r.Country_Region = c)
    IN  [k \in 1..Len(rows) |-> rows[k].Population]

\* lines 845-854: every column times 100000 over the country's population, rounded
Rate_floor(v, population) == (v * PerPopulation) \div population

Rate(v, population) == Round(v * PerPopulation, population)

incident_rate(f, pop) ==
    Frame(f.index, f.columns,
          [c \in DOMAIN f.data |->
              [n \in 1..Len(f.index) |->
                  Rate(f.data[c][n], PopulationValues(pop, c)[1])]])

TrStep(at) ==
    /\ call = "trends" /\ pc = at
    /\ UNCHANGED <<input, df, date_on_save_html, attempts, fileReads, page, ev>>

\* lines 568-569
ReadConfirmed ==
    /\ TrStep("start") /\ saved' = saved
    /\ \/ Raise(Error("URLError", "", {}, << >>)) /\ tr' = tr
       \/ \E file \in ConfirmedFiles :
             tr' = [tr EXCEPT !.csv = file, !.df_confirmed = create_df(file)]
             /\ pc' = "recovered" /\ err' = err

\* lines 574-575
ReadRecovered ==
    /\ TrStep("recovered") /\ saved' = saved
    /\ \/ Raise(Error("URLError", "", {}, << >>)) /\ tr' = tr
       \/ \E file \in RecoveredFiles(Len(tr.df_confirmed.index)) :
             tr' = [tr EXCEPT !.csv = file, !.df_recovered = create_df(file)]
             /\ pc' = "deaths" /\ err' = err

\* lines 578-579
ReadDeaths ==
    /\ TrStep("deaths") /\ saved' = saved
    /\ \/ Raise(Error("URLError", "", {}, << >>)) /\ tr' = tr
       \/ \E file \in DeathsFiles(Len(tr.df_confirmed.index)) :
             tr' = [tr EXCEPT !.csv = file, !.df_deaths = create_df(file)]
             /\ pc' = "top10" /\ err' = err

\* lines 585-600: the worldwide columns and df_top10_crda
BuildTop10 ==
    /\ TrStep("top10") /\ saved' = saved
    /\ \E tie \in TieOrders :
         LET top == Top10(tr.df_confirmed, tie)
             ww == [tr EXCEPT !.csv = << >>,
                              !.df_confirmed_ww = with_worldwide(tr.df_confirmed),
                              !.df_recovered_ww = with_worldwide(tr.df_recovered),
                              !.df_deaths_ww = with_worldwide(tr.df_deaths)]
         IN  IF /\ Range(top) \subseteq Range(tr.df_recovered.columns)
                /\ Range(top) \subseteq Range(tr.df_deaths.columns)
             THEN /\ tr' = [ww EXCEPT !.df_top10_crda =
                               top10_crda(top, tr.df_confirmed, tr.df_recovered,
                                          tr.df_deaths)]
                  /\ pc' = "population" /\ err' = err
             ELSE /\ Raise(Error("KeyError", "",
                                 Range(top) \ (Range(tr.df_recovered.columns)
                                                 \cap Range(tr.df_deaths.columns)),
                                 << >>))
                  /\ tr' = ww

\* lines 614-838: population_record is not empty once the file is read, so the
\* hardcoded table of lines 637-833 is never taken
ReadPopulation ==
    /\ TrStep("population") /\ saved' = saved
    /\ \/ Raise(Error("URLError", "", {}, << >>)) /\ tr' = tr
       \/ \E file \in PopulationFiles :
             tr' = [tr EXCEPT !.df_pop_inc_worldwide = pop_inc_worldwide(file)]
             /\ pc' = "incident_rate" /\ err' = err

\* lines 845-854: ...['Population'].values[0] for every column of df_confirmed_ww
BuildIncidentRate ==
    /\ TrStep("incident_rate") /\ saved' = saved
    /\ IF \A c \in Range(tr.df_confirmed_ww.columns) :
             PopulationValues(tr.df_pop_inc_worldwide, c) # << >>
       THEN /\ tr' = [tr EXCEPT !.df_incident_rate =
                         incident_rate(tr.df_confirmed_ww, tr.df_pop_inc_worldwide)]
            /\ pc' = "countries_list" /\ err' = err
       ELSE /\ Raise(Error("IndexError",
                           "index 0 is out of bounds for axis 0 with size 0",
                           {}, << >>))
            /\ tr' = tr

\* lines 862-882: Index.drop of the preferred countries, list.remove('China')
BuildCountriesList ==
    /\ TrStep("countries_list") /\ saved' = saved
    /\ LET columns == Range(tr.df_confirmed.columns)
       IN  IF ~(PreferredCountries \subseteq columns)
           THEN Raise(Error("KeyError", "", PreferredCountries \ columns, << >>))
                /\ tr' = tr
           ELSE IF "China" \notin columns
           THEN Raise(Error("ValueError", "list.remove(x): x not in list", {}, << >>))
                /\ tr' = tr
           ELSE /\ tr' = [tr EXCEPT
                            !.countries_list =
                                SelectSeq(countries_list_head
                                            \o SelectSeq(ColumnOrder,
                                                   LAMBDA c : c \in columns
                                                                 \ PreferredCountries),
                                          LAMBDA c : c # "China"),
                            !.top10_countries = tr.df_top10_crda.index]
                /\ pc' = "render" /\ err' = err

\* lines 895-901: the six tables of the top 10 comparison
df_list(t) ==
    LET top == t.top10_countries
    IN  <<Columns(Slice(t.df_confirmed, Offset), top),
          Positive(diff(Columns(Slice(t.df_confirmed, Offset), top))),
          seven_day_average(Columns(Slice(t.df_confirmed_ww, Offset), top)),
          Columns(Slice(t.df_recovered, Offset), top),
          Columns(Slice(t.df_deaths, Offset), top),
          Sub(Sub(Columns(Slice(t.df_confirmed_ww, Offset), top),
                  Columns(Slice(t.df_recovered_ww, Offset), top)),
              Columns(Slice(t.df_deaths_ww, Offset), top))>>

\* lines 1065-1080: the data sources of the country charts
sources(t) ==
    [c |-> Source(Slice(t.df_confirmed_ww, Offset)),
     daily |-> Source(diff(Slice(t.df_confirmed_ww, Offset))),
     sda |-> Source(seven_day_average(Slice(t.df_confirmed_ww, Offset))),
     rec |-> Source(Slice(t.df_recovered_ww, Offset)),
     dth |-> Source(Slice(t.df_deaths_ww, Offset)),
     act |-> Source(Sub(Sub(Slice(t.df_confirmed_ww, Offset),
                            Slice(t.df_recovered_ww, Offset)),
                        Slice(t.df_deaths_ww, Offset))),
     incident_rate |-> Source(t.df_incident_rate),
     case_fatality_ratio |-> Source(Percent(Slice(t.df_deaths_ww, Offset),
                                            Slice(t.df_confirmed_ww, Offset)))]

\* lines 884-1341: the charts, the tables and the layout; the country
\* selector starts on its first option
Render ==
    /\ TrStep("render") /\ saved' = saved
    /\ tr' = [tr EXCEPT !.df_list = df_list(tr), !.source = sources(tr),
                        !.s200 = Select(tr.countries_list, tr.countries_list[1]),
                        !.t198 = "<b>Worlwide Trends</b>",
                        !.pgrid = [visible |-> TRUE]]
    /\ pc' = "save" /\ err' = err

\* lines 1345-1349: pn_output.save
SaveTrends ==
    /\ TrStep("save") /\ tr' = tr /\ err' = err
    /\ saved' = Append(saved, [name |-> "COVID-19_dashboard_", stem |-> <<"date_on_plot">>])
    /\ pc' = "done"

\* source.data['Default'] = source.data[c.value]
SetDefault(source, value) ==
    [source EXCEPT !.data = [c \in DOMAIN source.data |->
                                IF c = "Default" THEN Lookup(source.data, value)
                                ELSE source.data[c]]]

\* lines 1168-1192: callcode
callcode(t) ==
    [t EXCEPT !.source = [k \in DOMAIN t.source |-> SetDefault(t.source[k], t.s200.value)],
              !.pgrid = [visible |-> TRUE],
              !.t198 = "<b>" \o t.s200.value \o " Trends" \o "</b>"]

\* the reader of the saved dashboard picks another country (lines 1196-1207)
ChangeTrendsCountry ==
    /\ TrStep("done") /\ saved' = saved /\ err' = err /\ pc' = pc
    /\ \E n \in 1..Len(tr.s200.options) :
          /\ tr.s200.options[n] # tr.s200.value
          /\ tr' = callcode([tr EXCEPT !.s200.value = tr.s200.options[n]])

(***************************************************************************)
(* The specification.                                                      *)
(***************************************************************************)
Next ==
    \/ ReadLocalFile
    \/ TryToday
    \/ TryYesterday
    \/ TryDayBeforeYesterday
    \/ CheckEmpty
    \/ BuildIndex
    \/ BuildOptionTables
    \/ BuildPlot
    \/ BuildSelectors
    \/ Save
    \/ ChangeCountry
    \/ ChangeProvince
    \/ ChangeAdmin2
    \/ ReadConfirmed
    \/ ReadRecovered
    \/ ReadDeaths
    \/ BuildTop10
    \/ ReadPopulation
    \/ BuildIncidentRate
    \/ BuildCountriesList
    \/ Render
    \/ SaveTrends
    \/ ChangeTrendsCountry

Spec == Init /\ [][Next]_vars

(***************************************************************************)
(* What the properties below speak of, said without the code's own         *)
(* operators.                                                              *)
(***************************************************************************)
RowsOfCountry(rows, c) == SelectSeq(rows, LAMBDA r : r.Country_Region = c)

RowsOfProvince(rows, p) == SelectSeq(rows, LAMBDA r : r.Province_State = p)

ProvinceCells(rows, c) ==
    [n \in 1..Len(RowsOfCountry(rows, c)) |-> RowsOfCountry(rows, c)[n].Province_State]

CountyCells(rows, p) ==
    [n \in 1..Len(RowsOfProvince(rows, p)) |-> RowsOfProvince(rows, p)[n].Admin2]

FirstAt(cells, v) ==
    CHOOSE n \in 1..Len(cells) : cells[n] = v /\ \A m \in 1..(n - 1) : cells[m] # v

\* s lists the values of cells that are not absent, each once, in the order in
\* which they first appear
Deduplicated(s, cells) ==
    /\ \A i, j \in 1..Len(s) : i # j => s[i] # s[j]
    /\ Range(s) = Range(cells) \ {NaN}
    /\ \A i, j \in 1..Len(s) : i < j => FirstAt(cells, s[i]) < FirstAt(cells, s[j])

FirstOrAbsent(s) == IF Len(s) = 0 THEN "nan" ELSE s[1]

\* the nine columns a snapshot file must have
NineColumns ==
    {"Admin2", "Province_State", "Country_Region", "Confirmed", "Deaths",
     "Recovered", "Active", "Incident_Rate", "Case_Fatality_Ratio"}

\* the characters .csv occur in the name, one after the other
NamesCsv(name) ==
    \E i \in 1..Len(name) :
        /\ i + 3 <= Len(name)
        /\ name[i] = "." /\ name[i + 1] = "c" /\ name[i + 2] = "s" /\ name[i + 3] = "v"

\* the extension of a file name: what follows the last dot of its last
\* component, that dot not being the component's first character
Extension(name) ==
    LET dots == {i \in 1..Len(name) :
                    /\ name[i] = "."
                    /\ \A j \in i..Len(name) : name[j] # "/"
                    /\ i > 1 /\ name[i - 1] # "/"}
    IN  IF dots = {} THEN << >>
        ELSE LET last == CHOOSE i \in dots : \A j \in dots : j <= i
             IN  SubSeq(name, last, Len(name))

Fetching == pc \in {"start", "yesterday", "day_b4_yesterday"}

SourceUnavailable ==
    /\ pc = "failed"
    /\ err.type = "FileNotFoundError"
    /\ err.msg = "Input file not found on the server or internet connection unavailable"

C3_CountyChangeFrame ==
    (Opened /\ ev.op = "admin2" /\ ev.arg # null) =>
        /\ page.s_countries = ev.pre.s_countries
        /\ page.s_provinces = ev.pre.s_provinces
        /\ page.s_admin2.options = ev.pre.s_admin2.options
        /\ page.axis_label = ev.pre.axis_label
        /\ page.visible = ev.pre.visible
        /\ \A k \in DOMAIN page.source \ {"default"} : page.source[k] = ev.pre.source[k]

(***************************************************************************)
(* C4: when no row of the snapshot is India, Karnataka, absent county, the *)
(* selection index is never built without its 'default' entry: the call    *)
(* has failed by then.                                                     *)
(***************************************************************************)
C4_DefaultRequired ==
    (call = "daily_report" /\ pc \in {"tables", "plot", "selectors", "save", "done"}) =>
        "default" \in DOMAIN page.source

(***************************************************************************)
(* C5: without a file name the retrievals are made for today, yesterday    *)
(* and the day before in this order, each one only after the one before    *)
(* it failed, none after one succeeded, and three failures end the call    *)
(* with the source-unavailable error.                                      *)
(***************************************************************************)
C5_FallbackChain ==
    (call = "daily_report" /\ filename = << >>) =>
        LET order == <<date_on_file_today, date_on_file_yesterday,
                       date_on_file_day_b4_yesterday>>
            n == Len(attempts)
        IN  /\ n <= 3
            /\ \A i \in 1..n : attempts[i].date = order[i]
            /\ \A i \in 1..(n - 1) : ~attempts[i].ok
            /\ ~Fetching => n >= 1 /\ (attempts[n].ok \/ n = 3)
            /\ (n >= 1 /\ attempts[n].ok) => ~Fetching
            /\ (n = 3 /\ ~attempts[3].ok /\ pc # "fetched") => SourceUnavailable

C5_Witness ==
    /\ call = "daily_report" /\ filename = << >>
    /\ Len(attempts) = 3 /\ ~attempts[3].ok
    /\ SourceUnavailable

(***************************************************************************)
(* C6: a local file that was read and lacks one of the nine required       *)
(* columns ends the call with a NameError whose arguments name the         *)
(* missing column, and no remote retrieval is made.                        *)
(***************************************************************************)
C6_MissingColumn ==
    (call = "daily_report" /\ filename # << >>) =>
        /\ attempts = << >>
        /\ (fileReads > 0 /\ df # NoTable /\ NineColumns \ df.cols # {}) =>
              /\ pc = "failed"
              /\ err.type = "NameError"
              /\ NineColumns \ df.cols \subseteq err.names

C6_Witness ==
    /\ call = "daily_report" /\ fileReads = 1
    /\ NineColumns \ df.cols = {"Active"}
    /\ pc = "failed" /\ err.type = "NameError" /\ "Active" \in err.names
    /\ attempts = << >>

(***************************************************************************)
(* C7 as stated: every path that is not empty and names no existing file   *)
(* ends the call with a FileNotFoundError carrying that path.              *)
(***************************************************************************)
C7_AnyMissingPath ==
    (call = "daily_report" /\ filename # << >> /\ ~fileExists /\ pc # "start") =>
        pc = "failed" /\ err.type = "FileNotFoundError" /\ err.path = filename

(***************************************************************************)
(* C7 as amended: every path that contains .csv and names no existing      *)
(* file ends the call with a FileNotFoundError carrying that path, the     *)
(* file never read.                                                        *)
(***************************************************************************)
C7_MissingCsvPath ==
    (call = "daily_report" /\ NamesCsv(filename) /\ ~fileExists /\ pc # "start") =>
        /\ pc = "failed" /\ err.type = "FileNotFoundError" /\ err.path = filename
        /\ fileReads = 0 /\ df = NoTable

C7_Witness ==
    /\ call = "daily_report" /\ ~fileExists
    /\ filename = <<"a", ".", "c", "s", "v", ".", "t", "x", "t">>
    /\ pc = "failed" /\ err.type = "FileNotFoundError" /\ err.path = filename

(***************************************************************************)
(* C8: every file name whose extension is not .csv ends the call with a    *)
(* NameError, the file never read.                                         *)
(***************************************************************************)
C8_ExtensionRequired ==
    (call = "daily_report" /\ filename # << >> /\ Extension(filename) # DotCsv
        /\ pc # "start") =>
        pc = "failed" /\ err.type = "NameError" /\ fileReads = 0

(***************************************************************************)
(* C9: a snapshot table without rows, read from the local file or left by  *)
(* the remote attempts, ends the call with an error; no index, plot or     *)
(* selector is built and nothing is written.                               *)
(***************************************************************************)
C9_EmptyFails ==
    (call = "daily_report" /\ ~Fetching /\ pc # "fetched" /\ Len(df.rows) = 0) =>
        /\ pc = "failed" /\ err # NoError
        /\ page = NoPage
        /\ saved = << >>

\* the first remote attempt returned a table without rows
C9_Witness ==
    /\ call = "daily_report" /\ Len(attempts) = 1 /\ attempts[1].ok
    /\ df.cols = AllColumns /\ Len(df.rows) = 0
    /\ SourceUnavailable /\ saved = << >>

(***************************************************************************)
(* C10: a call of daily_report or trends writes at most one file; it has   *)
(* written one exactly when it has run to its end, which it does without   *)
(* an exception, and a call that failed has written none.                  *)
(***************************************************************************)
C10_AllOrNothing ==
    /\ Len(saved) <= 1
    /\ Len(saved) = 1 <=> pc = "done"
    /\ Len(saved) = 1 => err = NoError
    /\ pc = "failed" => saved = << >> /\ err # NoError

C10_Witness ==
    /\ call = "trends" /\ pc = "done" /\ Len(saved) = 1
    /\ Len(tr.countries_list) > 1

(***************************************************************************)
(* trends: the derived series.                                             *)
(***************************************************************************)
\* the confirmed columns the population table has no row for
WithoutPopulation ==
    {c \in Range(tr.df_confirmed.columns) :
        \A k \in 1..Len(tr.df_pop_inc_worldwide) :
            tr.df_pop_inc_worldwide[k].Country_Region # c}

\* C11: when a country that has a confirmed column has no row in the population
\* table, trends fails before any chart is rendered, with an error that names
\* the country whose population is missing.
C11_MissingPopulationNamed ==
    (/\ call = "trends" /\ tr.df_pop_inc_worldwide # << >>
     /\ pc # "incident_rate" /\ WithoutPopulation # {})
        => /\ pc = "failed"
           /\ tr.source = NoSources /\ saved = << >>
           /\ WithoutPopulation \subseteq err.names

\* the sum of the columns S of a table at the n-th date
RECURSIVE SumAt(_, _, _)
SumAt(f, S, n) ==
    IF S = {} THEN 0
    ELSE LET c == CHOOSE c \in S : TRUE
         IN  f.data[c][n] + SumAt(f, S \ {c}, n)

\* the table ww is the table f with one more column, the sum of f's columns
IsWorldwideOf(ww, f) ==
    /\ ww.index = f.index
    /\ DOMAIN ww.data = Range(f.columns) \cup {"Worldwide"}
    /\ \A c \in Range(f.columns) : ww.data[c] = f.data[c]
    /\ \A n \in 1..Len(f.index) :
          ww.data["Worldwide"][n] = SumAt(f, Range(f.columns), n)

\* C12: for each of confirmed, recovered and deaths, the 'Worldwide' column has at
\* every date the sum of the values all the country columns of the pivoted table
\* have at that date.
C12_WorldwideIsSum ==
    (call = "trends" /\ tr.df_confirmed_ww # NoFrame)
        => /\ IsWorldwideOf(tr.df_confirmed_ww, tr.df_confirmed)
           /\ IsWorldwideOf(tr.df_recovered_ww, tr.df_recovered)
           /\ IsWorldwideOf(tr.df_deaths_ww, tr.df_deaths)

C12_Witness ==
    /\ pc = "done" /\ call = "trends"
    /\ Len(tr.df_confirmed.columns) > 1
    /\ tr.df_confirmed_ww.data["Worldwide"][Offset + 1]
          > tr.df_confirmed_ww.data["US"][Offset + 1]
    /\ tr.df_confirmed_ww.data["US"][Offset + 1] > 0
    /\ tr.df_deaths_ww.data["Worldwide"][Offset + 1] > 0

PositionOf(index, d) == CHOOSE n \in 1..Len(index) : index[n] = d

\* the value the table f has for country c at date d
ValueAt(f, c, d) == f.data[c][PositionOf(f.index, d)]

\* the table act, over the given columns, holds for every country and date
\* Confirmed - Recovered - Deaths of that country at that date, and a missing
\* value where the country has no recovered or no deaths series
IsActive(act, columns) ==
    /\ Range(act.index) = (Offset + 1)..Len(tr.df_confirmed_ww.index)
    /\ columns \subseteq DOMAIN act.data
    /\ \A c \in columns : \A n \in 1..Len(act.index) :
          LET d == act.index[n]
          IN  IF /\ c \in DOMAIN tr.df_confirmed_ww.data
                 /\ c \in DOMAIN tr.df_recovered_ww.data
                 /\ c \in DOMAIN tr.df_deaths_ww.data
              THEN act.data[c][n] = ValueAt(tr.df_confirmed_ww, c, d)
                                      - ValueAt(tr.df_recovered_ww, c, d)
                                      - ValueAt(tr.df_deaths_ww, c, d)
              ELSE act.data[c][n] = np_nan

\* C13: in the Active series of the country charts and of the top 10 comparison,
\* the value of every country at every date is exactly Confirmed - Recovered -
\* Deaths of the same country at the same date.
C13_ActiveExact ==
    (call = "trends" /\ tr.source # NoSources)
        => /\ IsActive(tr.source.act,
                       Range(tr.df_confirmed_ww.columns)
                          \cup Range(tr.df_recovered_ww.columns)
                          \cup Range(tr.df_deaths_ww.columns))
           /\ tr.source.act.data["Default"] = tr.source.act.data[tr.s200.value]
           /\ IsActive(tr.df_list[6], Range(tr.top10_countries))
           /\ tr.df_list[6].columns = tr.top10_countries

C13_Witness ==
    /\ pc = "done" /\ call = "trends"
    /\ LET n == Len(tr.source.act.index)
       IN  /\ n > 0
           /\ tr.source.rec.data["US"][n] > 0
           /\ tr.source.dth.data["US"][n] > 0
           /\ tr.source.act.data["US"][n] > 0
           /\ tr.source.act.data["US"][n] < tr.source.c.data["US"][n]
           /\ tr.df_list[6].data["US"][n] = tr.source.act.data["US"][n]

\* the dates at which country c has a value in the table f
ValidDates(f, c) ==
    SelectSeq(f.index, LAMBDA d : f.data[c][PositionOf(f.index, d)] # np_nan)

\* the averages avg have, for each of the columns, an entry for every date the
\* daily differences of the country have one, but for the first 6
SixFewer(avg, columns) ==
    \A c \in columns :
        LET valid == ValidDates(tr.source.daily, c)
        IN  /\ Len(valid) >= 6
            /\ Len(avg.data[c]) = Len(valid) - 6
            /\ avg.index = SubSeq(valid, 7, Len(valid))
            /\ \A n \in 1..Len(avg.index) : avg.data[c][n] # np_nan

\* C14: for every country the 7-day rolling mean series has exactly 6 entries
\* fewer than the series of daily differences it is computed from: the first 6
\* days that have a daily difference are dropped and no other day.
C14_SixFewerEntries ==
    (call = "trends" /\ tr.source # NoSources)
        => /\ DOMAIN tr.source.sda.data = DOMAIN tr.source.daily.data
           /\ SixFewer(tr.source.sda, DOMAIN tr.source.sda.data)
           /\ DOMAIN tr.df_list[3].data = Range(tr.top10_countries)
           /\ SixFewer(tr.df_list[3], Range(tr.top10_countries))

C14_Witness ==
    /\ pc = "done" /\ call = "trends"
    /\ Len(tr.source.sda.index) >= 2
    /\ Len(ValidDates(tr.source.daily, "India")) = Len(tr.source.sda.data["India"]) + 6
    /\ Len(tr.df_list[3].index) >= 2

\* the sum of the 7 daily differences of country c that end at date d: the
\* differences of consecutive values add up to the last value less the value
\* 7 days before
SevenDaySum(c, d) ==
    tr.df_confirmed_ww.data[c][d] - tr.df_confirmed_ww.data[c][d - 7]

\* every entry of avg is the mean of the 7 latest daily differences, cut to a
\* whole number
SevenDayMean(avg, columns) ==
    \A c \in columns : \A n \in 1..Len(avg.index) :
        LET d == avg.index[n]
            s == SevenDaySum(IF c = "Default" THEN tr.s200.value ELSE c, d)
            k == avg.data[c][n]
        IN  /\ d - 7 >= Offset + 1
            /\ IF s >= 0 THEN k * 7 <= s /\ s < (k + 1) * 7
               ELSE (k - 1) * 7 < s /\ s <= k * 7

\* C15: every entry of the 7-day rolling mean series is the arithmetic mean of
\* the country's 7 daily differences of the window ending at that date, with
\* the fraction cut off.
C15_MeanOfSeven ==
    (call = "trends" /\ tr.source # NoSources)
        => /\ SevenDayMean(tr.source.sda, DOMAIN tr.source.sda.data)
           /\ SevenDayMean(tr.df_list[3], Range(tr.top10_countries))

C15_Witness ==
    /\ pc = "done" /\ call = "trends"
    /\ Len(tr.source.sda.index) >= 1
    /\ LET d == tr.source.sda.index[1]
       IN  /\ SevenDaySum("US", d) < 0
           /\ SevenDaySum("US", d) % 7 # 0
           /\ tr.source.sda.data["US"][1] < 0
           /\ SevenDaySum("India", d) > 7
           /\ tr.source.sda.data["India"][1] > 0

\* the largest value a country's confirmed series has at any date
FullMax(c) ==
    LET v == tr.df_confirmed.data[c]
    IN  CHOOSE m \in Range(v) : \A n \in 1..Len(v) : v[n] <= m

\* the value a country's confirmed series has at the latest date
Latest(c) == tr.df_confirmed.data[c][Len(tr.df_confirmed.index)]

\* C16: the top 10 table holds exactly the 10 countries whose confirmed series
\* have the largest maxima over all dates (not the largest latest values),
\* listed by descending maximum.
C16_Top10ByFullMaximum ==
    (call = "trends" /\ tr.df_top10_crda # NoTop10)
        => LET top == tr.df_top10_crda.index
               columns == Range(tr.df_confirmed.columns)
               max == [c \in columns |-> FullMax(c)] @@ << >>
           IN  /\ Len(top) = 10
               /\ Cardinality(Range(top)) = 10
               /\ Range(top) \subseteq columns
               /\ \A c \in Range(top) : \A d \in columns \ Range(top) :
                     max[c] >= max[d]
               /\ \A k \in 1..9 : max[top[k]] >= max[top[k + 1]]
               /\ \A c \in Range(top) : tr.df_top10_crda.Confirmed[c] = max[c]

C16_Witness ==
    /\ pc = "done" /\ call = "trends"
    /\ \E k \in 1..9 :
          LET top == tr.df_top10_crda.index
          IN  /\ FullMax(top[k]) > FullMax(top[k + 1])
              /\ Latest(top[k]) < Latest(top[k + 1])
              /\ Latest(top[k]) < FullMax(top[k])

\* C17: countries with equal confirmed maxima stand in the top 10 ranking in
\* the order the source has them.
C17_TiesInSourceOrder ==
    (call = "trends" /\ tr.df_top10_crda # NoTop10)
        => \A k \in 1..(Len(tr.df_top10_crda.index) - 1) :
              LET a == tr.df_top10_crda.index[k]
                  b == tr.df_top10_crda.index[k + 1]
              IN  FullMax(a) = FullMax(b)
                    => IndexOf(tr.df_confirmed.columns, a)
                          < IndexOf(tr.df_confirmed.columns, b)

\* the population the look-up table gives for a country
PopulationOf(c) ==
    LET rows == tr.df_pop_inc_worldwide
        k == CHOOSE k \in 1..Len(rows) :
                /\ rows[k].Country_Region = c
                /\ \A j \in 1..(k - 1) : rows[j].Country_Region # c
    IN  rows[k].Population

\* r is a whole number nearest to n / d
Nearest(r, n, d) ==
    LET diff_ == IF r * d >= n THEN r * d - n ELSE n - r * d
    IN  2 * diff_ <= d

\* C18: the incident rate stored for a country and a date is confirmed x 100000 /
\* population of the country, rounded to the nearest whole number, cell by cell;
\* confirmed 500 with population 1000000 gives 50.
C18_IncidentRateRounded ==
    (call = "trends" /\ tr.df_incident_rate # NoFrame)
        => /\ tr.df_incident_rate.index = tr.df_confirmed_ww.index
           /\ DOMAIN tr.df_incident_rate.data = DOMAIN tr.df_confirmed_ww.data
           /\ \A c \in DOMAIN tr.df_confirmed_ww.data :
                 \A n \in 1..Len(tr.df_confirmed_ww.index) :
                    /\ Nearest(tr.df_incident_rate.data[c][n],
                               tr.df_confirmed_ww.data[c][n] * 100000, PopulationOf(c))
                    /\ (tr.df_confirmed_ww.data[c][n] = 500 /\ PopulationOf(c) = 1000000)
                          => tr.df_incident_rate.data[c][n] = 50

C18_Witness ==
    /\ pc = "done" /\ call = "trends"
    /\ tr.df_confirmed_ww.data["Foo"][5] = 500 /\ PopulationOf("Foo") = 1000000
    /\ tr.df_incident_rate.data["Foo"][5] = 50
    /\ \E n \in 1..Len(tr.df_confirmed_ww.index) :
          /\ (tr.df_confirmed_ww.data["India"][n] * 100000) % PopulationOf("India") # 0
          /\ tr.df_incident_rate.data["India"][n] > 0

(***************************************************************************)
(* daily_report: the selection index.                                      *)
(***************************************************************************)
\* the index as daily_report builds it, before any selection is made
IndexBuilt == call = "daily_report" /\ "categories" \in DOMAIN page.source /\ ev = NoEvent

\* country, province and county of a row joined by '_', 'nan' for an absent one
KeyOf(r) == r.Country_Region \o "_" \o r.Province_State \o "_" \o r.Admin2

\* t holds the six metrics of the row r in the order Confirmed, Recovered,
\* Deaths, Active, Incident_Rate rounded, Case_Fatality_Ratio rounded to 2 places
SixMetrics(t, r) ==
    /\ Len(t) = 6
    /\ t[1] = r.Confirmed /\ t[2] = r.Recovered /\ t[3] = r.Deaths /\ t[4] = r.Active
    /\ Nearest(t[5], r.Incident_Rate, 10)
    /\ Nearest(t[6], r.Case_Fatality_Ratio, 10)

\* C19: the selection index holds under every entity key six metrics in the
\* order Confirmed, Recovered, Deaths, Active, Incident_Rate (rounded),
\* Case_Fatality_Ratio (rounded to 2 places); its 'default' entry is the tuple
\* under the key of the default entity; its colour list has six elements, one
\* for each of the six categories.
C19_IndexShape ==
    IndexBuilt
        => /\ page.source["categories"]
                 = <<"Confirmed", "Recovered", "Deaths", "Active", "Incident_Rate",
                     "Case_Fatality_Ratio">>
           /\ "color" \in DOMAIN page.source
           /\ Len(page.source["color"]) = 6
           /\ \A n \in 1..Len(df.rows) :
                 /\ KeyOf(df.rows[n]) \in DOMAIN page.source
                 /\ \E m \in 1..Len(df.rows) :
                       /\ KeyOf(df.rows[m]) = KeyOf(df.rows[n])
                       /\ SixMetrics(page.source[KeyOf(df.rows[n])], df.rows[m])
           /\ DOMAIN page.source \subseteq
                 {KeyOf(df.rows[n]) : n \in 1..Len(df.rows)}
                    \cup {"categories", "color", "default"}
           /\ ("default" \in DOMAIN page.source)
                 <=> ("India_Karnataka_nan" \in DOMAIN page.source)
           /\ ("default" \in DOMAIN page.source)
                 => page.source["default"] = page.source["India_Karnataka_nan"]

C19_Witness ==
    /\ IndexBuilt /\ pc = "done"
    /\ Len(df.rows) >= 3
    /\ "default" \in DOMAIN page.source
    /\ page.source["default"] = <<900, 500, 20, 380, 12, 222>>
    /\ "Foo_Bar_Qux" \in DOMAIN page.source

\* C20: every row of the snapshot produces one entity key, country + '_' +
\* province + '_' + county, and the built index holds under the key of every
\* row the six metrics of that row.
C20_EveryRowItsOwnTuple ==
    IndexBuilt
        => \A n \in 1..Len(df.rows) :
              /\ KeyOf(df.rows[n]) \in DOMAIN page.source
              /\ SixMetrics(page.source[KeyOf(df.rows[n])], df.rows[n])

\* C20 as the code has it: under the key of every row the index holds the six
\* metrics of the last row that produces this key, the row's own unless a
\* later row has the same key.
C20_LastRowOfKey ==
    IndexBuilt
        => \A n \in 1..Len(df.rows) :
              /\ KeyOf(df.rows[n]) \in DOMAIN page.source
              /\ LET last == CHOOSE m \in n..Len(df.rows) :
                                /\ KeyOf(df.rows[m]) = KeyOf(df.rows[n])
                                /\ \A j \in (m + 1)..Len(df.rows) :
                                      KeyOf(df.rows[j]) # KeyOf(df.rows[n])
                 IN  SixMetrics(page.source[KeyOf(df.rows[n])], df.rows[last])

C20_Witness ==
    /\ IndexBuilt
    /\ \E n, m \in 1..Len(df.rows) :
          /\ n < m
          /\ KeyOf(df.rows[n]) = KeyOf(df.rows[m])
          /\ df.rows[n].Country_Region # df.rows[m].Country_Region
          /\ page.source[KeyOf(df.rows[n])][1] = df.rows[m].Confirmed
          /\ df.rows[n].Confirmed # df.rows[m].Confirmed

\* every value of the table f is missing or above zero
OnlyPositive(f) ==
    \A c \in DOMAIN f.data : \A n \in 1..Len(f.index) :
        f.data[c][n] = np_nan \/ f.data[c][n] > 0

\* C21: in the daily-difference series trends builds for display, the 'Daily
\* Cases' source of the country chart and the 'Daily Cases' table of the top 10
\* comparison, a difference that is zero or negative is a missing value.
C21_NonPositiveMissing ==
    (call = "trends" /\ tr.source # NoSources)
        => /\ OnlyPositive(tr.df_list[2])
           /\ OnlyPositive(tr.source.daily)

\* the dates after the first 70 of the confirmed table
DateWindow == (Offset + 1)..Len(tr.df_confirmed.index)

\* C22: each of the eight series of the country charts (confirmed, daily, 7-day
\* average, recovered, deaths, active, incident rate, case fatality ratio)
\* starts at row 70 of the dates of the source, so that all cover the same
\* dates; the 7-day average has no values for the first days of them.
C22_AllFromOffset ==
    (call = "trends" /\ tr.source # NoSources)
        => \A k \in DOMAIN tr.source :
              /\ Range(tr.source[k].index) \subseteq DateWindow
              /\ k # "sda" => Range(tr.source[k].index) = DateWindow

\* the largest value of the column c of the table f
MaxOf(f, c) ==
    CHOOSE m \in Range(f.data[c]) : \A n \in 1..Len(f.data[c]) : f.data[c][n] <= m

\* C23: in the top 10 table the Recovered and Deaths values in the row of a
\* country are the maxima of that country's own recovered and deaths series,
\* whatever its rank among the recovered or the deaths, and Active is Confirmed
\* less Recovered less Deaths of the row.
C23_OwnMaxima ==
    (call = "trends" /\ tr.df_top10_crda # NoTop10)
        => \A c \in Range(tr.df_top10_crda.index) :
              /\ tr.df_top10_crda.Recovered[c] = MaxOf(tr.df_recovered, c)
              /\ tr.df_top10_crda.Deaths[c] = MaxOf(tr.df_deaths, c)
              /\ tr.df_top10_crda.Active[c]
                    = tr.df_top10_crda.Confirmed[c] - tr.df_top10_crda.Recovered[c]
                        - tr.df_top10_crda.Deaths[c]

C23_Witness ==
    /\ pc = "done" /\ call = "trends"
    /\ \E k \in 1..(Len(tr.df_top10_crda.index) - 1) :
          LET a == tr.df_top10_crda.index[k]
              b == tr.df_top10_crda.index[k + 1]
          IN  /\ tr.df_top10_crda.Confirmed[a] > tr.df_top10_crda.Confirmed[b]
              /\ tr.df_top10_crda.Recovered[a] < tr.df_top10_crda.Recovered[b]
              /\ tr.df_top10_crda.Deaths[a] > 0

\* the sum of the values the rows K of a file have at the t-th date
RECURSIVE SumOfRows(_, _, _)
SumOfRows(rows, K, t) ==
    IF K = {} THEN 0
    ELSE LET k == CHOOSE k \in K : TRUE
         IN  rows[k].vals[t] + SumOfRows(rows, K \ {k}, t)

\* the table f has one column for each country of the rows, with the sum of the
\* values of the country's rows at every date
IsPivotOf(f, rows) ==
    LET countries == {rows[k].Country : k \in 1..Len(rows)}
    IN  /\ Len(f.columns) = Cardinality(countries)
        /\ Range(f.columns) = countries
        /\ DOMAIN f.data = countries
        /\ \A c \in countries : \A t \in 1..Len(rows[1].vals) :
              f.data[c][t]
                 = SumOfRows(rows, {k \in 1..Len(rows) : rows[k].Country = c}, t)

\* C24: when several rows of a time-series file carry one country, the pivoted
\* table holds for the country at every date the sum of the values of those
\* rows, and it has exactly one column for each distinct country.
C24_PivotSums ==
    (call = "trends" /\ tr.csv # << >>)
        => /\ pc = "recovered" => IsPivotOf(tr.df_confirmed, tr.csv)
           /\ pc = "deaths" => IsPivotOf(tr.df_recovered, tr.csv)
           /\ pc = "top10" => IsPivotOf(tr.df_deaths, tr.csv)

C24_Witness ==
    /\ call = "trends" /\ pc = "recovered"
    /\ \E j, k \in 1..Len(tr.csv) :
          /\ j < k
          /\ tr.csv[j].Country = "China"
          /\ tr.csv[k].Country = "China"
          /\ tr.csv[j].vals[Offset] > 0
          /\ tr.csv[k].vals[Offset] > 0
          /\ tr.df_confirmed.data["China"][Offset]
                = tr.csv[j].vals[Offset] + tr.csv[k].vals[Offset]
    /\ Len(tr.csv) > Len(tr.df_confirmed.columns)

\* C25: when the retrieval of the remote population table fails, trends goes on
\* with a population table (the hardcoded one): the step that reads the
\* population never ends the call.
C25_PopulationFallback ==
    [][(call = "trends" /\ pc = "population")
          => /\ pc' = "incident_rate"
             /\ tr'.df_pop_inc_worldwide # << >>]_vars

(***************************************************************************)
(* daily_report: the name of the file written.                             *)
(***************************************************************************)
\* a file name without its extension: the name up to its last dot
WithoutExtension(s) ==
    IF \E i \in 1..Len(s) : s[i] = "."
    THEN LET i == CHOOSE i \in 1..Len(s) : s[i] = "." /\ \A j \in (i + 1)..Len(s) : s[j] # "."
         IN  SubSeq(s, 1, i - 1)
    ELSE s

\* the date of the first retrieval attempt that succeeded
FirstSucceeded(d) ==
    \E k \in 1..Len(attempts) :
        /\ attempts[k].ok /\ attempts[k].date = d
        /\ \A j \in 1..(k - 1) : ~attempts[j].ok

\* C26: the file daily_report writes is COVID-19_Daily_Report_JS_<s>.html where
\* <s> is, for a remote run, the date of the first retrieval attempt that
\* succeeded and, for a local file, the file's name without its extension.
C26_OutputFileName ==
    (call = "daily_report" /\ saved # << >>)
        => /\ saved[1].name = "COVID-19_Daily_Report_JS_"
           /\ IF filename = << >>
              THEN FirstSucceeded(saved[1].stem)
              ELSE saved[1].stem = WithoutExtension(filename)

(***************************************************************************)
(* The daily report page after any sequence of selector changes.           *)
(***************************************************************************)
\* the key of the entity on display: the field the data table shows
ActiveKey == page.field

\* C27: after any sequence of country, province and county selector changes the
\* active entity key is a key of the selection index, so the 'default' slice is
\* a stored tuple of six metrics and never undefined.
C27_ActiveKeyInIndex ==
    (Opened /\ ev.op # "none")
        => /\ ActiveKey \in DOMAIN ddict(df.rows)
           /\ Lookup(page.source, "default") # undefined
           /\ Len(Lookup(page.source, "default")) = 6
           /\ ~page.thrown

\* a selector without a value: null, or the empty value it is constructed with
Absent(v) == v = null \/ v = ""

NanIfAbsent(v) == IF Absent(v) THEN "nan" ELSE v

\* the key the three selectors' values spell
SelectorsKey ==
    page.s_countries.value \o "_" \o NanIfAbsent(page.s_provinces.value)
        \o "_" \o NanIfAbsent(page.s_admin2.value)

MemberOrAbsent(selector) ==
    Absent(selector.value) \/ selector.value \in Range(selector.options)

\* C28: in the initial state of the page and after every completed selector
\* change the active entity key is the country, province and county selectors'
\* values joined by '_', an absent value written 'nan', and every selector's
\* value is one of its own options or absent.
C28_KeyIsSelectorValues ==
    Opened
        => /\ (IF ev.op = "none" THEN DefaultKey ELSE ActiveKey) = SelectorsKey
           /\ MemberOrAbsent(page.s_countries)
           /\ MemberOrAbsent(page.s_provinces)
           /\ MemberOrAbsent(page.s_admin2)

\* C29: after every selector change handled by one of the three handlers the
\* 'default' slice the bar chart draws and the column the data table shows are
\* the tuple of the same entity key, and the incident rate and the case
\* fatality ratio of the plot title are elements 4 and 5 of that tuple.
C29_ChartTableTitleAgree ==
    (Opened /\ ev.op # "none")
        => LET tuple == Lookup(page.source, ActiveKey)
           IN  /\ tuple # undefined
               /\ page.source["default"] = tuple
               /\ page.title.ir = tuple[5]
               /\ page.title.cfr = tuple[6]

(***************************************************************************)
(* The trends page after any sequence of country selections.               *)
(***************************************************************************)
\* C30: on the trends page, after any sequence of country selections, the
\* 'Default' column of each of the eight data sources is the column of the
\* country selected, and every option of the country selector names a column
\* of each of the eight sources, so that no 'Default' is ever undefined.
C30_DefaultIsSelected ==
    (call = "trends" /\ tr.source # NoSources)
        => \A k \in DOMAIN tr.source :
              LET data == tr.source[k].data
              IN  /\ \A n \in 1..Len(tr.s200.options) : tr.s200.options[n] \in DOMAIN data
                  /\ tr.s200.value \in DOMAIN data
                  /\ data["Default"] = data[tr.s200.value]

====
